---- MODULE Spec2Model ----
(***************************************************************************)
(* Model of static/js/dashboard.js: the TokenDashboard controller.         *)
(*                                                                         *)
(* Strings are sequences of atoms.  An atom is either one of the markup    *)
(* characters "<", ">", "&" or an opaque chunk of text that holds none of  *)
(* them; the entities "&lt;", "&gt;", "&amp;" are atoms of their own.      *)
(* JSON values are records [t, n, s]: t is the type ("null", "num", "str", *)
(* or "ts" for a string that Date can parse), n the number (or the         *)
(* instant a "ts" string denotes), s the atoms of a string.                *)
(***************************************************************************)
EXTENDS Integers, Sequences, FiniteSets, TLC

VARIABLES
    tbodyPresent,          \* document.getElementById('tokenTableBody') !== null
    autoRefreshInterval,   \* this.autoRefreshInterval (NoHandle is null)
    isAutoRefreshEnabled,  \* this.isAutoRefreshEnabled
    ariaChecked,           \* the switch's aria-checked attribute / active class
    liveIntervals,         \* handles of the refresh intervals the browser still runs
    nextHandle,            \* the handle the next setInterval returns
    tbody,                 \* innerHTML of #tokenTableBody
    counters,              \* textContent of #totalTokens and #activeTokens
    lastUpdate,            \* textContent of #lastUpdate (the instant it shows)
    now,                   \* the wall clock, as new Date() reads it
    awaitingFetch,         \* requests suspended at `await fetch(...)`
    awaitingJson,          \* requests suspended at `await response.json()`
    nextReq,               \* number of the next request to be issued
    animTimers,            \* queue of the live animateNumber intervals
    resolved,              \* history: <<[req, resp]>> in the order refreshes completed
    lastReads,             \* history: the clock values the last row rendering read
    rejected               \* history: some refreshTokens() promise was rejected

vars == <<tbodyPresent, autoRefreshInterval, isAutoRefreshEnabled, ariaChecked,
          liveIntervals, nextHandle, tbody, counters, lastUpdate, now, awaitingFetch,
          awaitingJson, nextReq, animTimers, resolved, lastReads, rejected>>

(***************************************************************************)
(* Bounds of the model.                                                    *)
(***************************************************************************)
MaxRequests == 3        \* refreshes issued in Spec
MaxHandles == 2         \* intervals started by toggleAutoRefresh
MaxClock == 2           \* last instant of the wall clock
MaxCount == 2           \* largest total_tokens / active_tokens in SpecAnim
MaxAnimRequests == 2    \* refreshes issued in SpecAnim
MaxRemaining == 7       \* largest remaining_usage in SpecRow

(***************************************************************************)
(* Program constants.                                                      *)
(***************************************************************************)
steps == 15
LowRemaining == 5
NoHandle == 0

(***************************************************************************)
(* JSON values and the JavaScript operators the code applies to them.      *)
(***************************************************************************)
Null == [t |-> "null", n |-> 0, s |-> <<>>]
Num(k) == [t |-> "num", n |-> k, s |-> <<>>]
Str(atoms) == [t |-> "str", n |-> 0, s |-> atoms]
Ts(k) == [t |-> "ts", n |-> k, s |-> <<"iso-timestamp">>]

\* ToBoolean: null, 0 and "" are falsy.
Truthy(v) ==
    CASE v.t = "null" -> FALSE
      [] v.t = "num" -> v.n # 0
      [] OTHER -> v.s # <<>>

\* a || b
OrElse(v, d) == IF Truthy(v) THEN v ELSE d

\* a ?? b
Nullish(v, d) == IF v.t = "null" THEN d ELSE v

Digit(d) == <<"0", "1", "2", "3", "4", "5", "6", "7", "8", "9">>[d + 1]

RECURSIVE NatStr(_)
NatStr(k) == IF k < 10 THEN <<Digit(k)>> ELSE Append(NatStr(k \div 10), Digit(k % 10))

\* String(number)
NumStr(k) == IF k < 0 THEN <<"-">> \o NatStr(0 - k) ELSE NatStr(k)

\* String(v), as a template literal or textContent applies it
ToStr(v) ==
    CASE v.t = "null" -> <<"null">>
      [] v.t = "num" -> NumStr(v.n)
      [] OTHER -> v.s

\* new Date(v).getTime(): a number or a parseable string gives an instant,
\* anything else NaN.
DateParse(v) ==
    IF v.t \in {"ts", "num"} THEN [valid |-> TRUE, ms |-> v.n]
    ELSE [valid |-> FALSE, ms |-> 0]

EscapeAtom(a) ==
    CASE a = "&" -> "&amp;"
      [] a = "<" -> "&lt;"
      [] a = ">" -> "&gt;"
      [] OTHER -> a

\* escapeHtml: div.textContent = text; return div.innerHTML
escapeHtml(text) ==
    LET str == IF text.t = "null" THEN <<>> ELSE ToStr(text)
    IN  [i \in 1..Len(str) |-> EscapeAtom(str[i])]

(***************************************************************************)
(* Status classification.                                                  *)
(***************************************************************************)
\* isExpired, with the value its `new Date()` returns
isExpired(token, clock) ==
    IF ~Truthy(token.expires_at) THEN FALSE
    ELSE LET d == DateParse(token.expires_at)
         IN  d.valid /\ d.ms < clock

\* remaining === 0
StrictZero(v) == v.t = "num" /\ v.n = 0

\* remaining <= 5: a number compares as it is, "" converts to 0, and any
\* other string of the model converts to NaN, for which <= is false.
AtMostLow(v) ==
    CASE v.t = "num" -> v.n <= LowRemaining
      [] v.t = "str" -> v.s = <<>>
      [] OTHER -> FALSE

getStatusClass(token, clock) ==
    IF isExpired(token, clock) THEN "status-expired"
    ELSE LET remaining == Nullish(token.remaining_usage, Num(0))
         IN  IF StrictZero(remaining) THEN "status-exhausted"
             ELSE IF AtMostLow(remaining) THEN "status-low"
             ELSE "status-active"

\* mutant of getStatusText: the usage checks come before the expiry check
getStatusText_usageFirst(token, clock) ==
    LET remaining == Nullish(token.remaining_usage, Num(0))
    IN  IF StrictZero(remaining) THEN "Exhausted"
        ELSE IF AtMostLow(remaining) THEN "Low"
        ELSE IF isExpired(token, clock) THEN "Expired"
        ELSE "Active"

getStatusText(token, clock) ==
    IF isExpired(token, clock) THEN "Expired"
    ELSE LET remaining == Nullish(token.remaining_usage, Num(0))
         IN  IF StrictZero(remaining) THEN "Exhausted"
             ELSE IF AtMostLow(remaining) THEN "Low"
             ELSE "Active"

\* formatDateTime: "-" for an absent or unparseable value, else the
\* en-US rendering of the instant (digits, "/", ",", ":" and spaces only).
formatDateTime(dateStr) ==
    IF ~Truthy(dateStr) THEN <<"-">>
    ELSE LET d == DateParse(dateStr)
         IN  IF ~d.valid THEN <<"-">> ELSE <<"en-US:">> \o NumStr(d.ms)

(***************************************************************************)
(* Rendering.                                                              *)
(***************************************************************************)
\* createTokenRow: the values interpolated into the row template.  t1 is
\* the clock getStatusClass reads, t2 the clock getStatusText reads.
createTokenRow(token, index, t1, t2) ==
    [index |-> index,
     user_email |-> escapeHtml(OrElse(token.user_email, Str(<<"unknown">>))),
     token_preview |-> escapeHtml(OrElse(token.token_preview, Str(<<"N/A">>))),
     auth_type |-> escapeHtml(OrElse(token.auth_type, Str(<<"social">>))),
     remaining_usage |-> ToStr(Nullish(token.remaining_usage, Num(0))),
     expires_at |-> formatDateTime(token.expires_at),
     last_used |-> formatDateTime(token.last_used),
     statusClass |-> getStatusClass(token, t1),
     statusText |-> getStatusText(token, t2)]

NoRows == <<>>
Html(kind, message, rows) == [kind |-> kind, message |-> message, rows |-> rows]

\* the innerHTML showLoading, showError and showEmpty assign
showLoading == Html("loading", <<>>, NoRows)
showError(message) == Html("error", escapeHtml(Str(message)), NoRows)
showEmpty == Html("empty", <<>>, NoRows)
AbsentHtml == Html("absent", <<>>, NoRows)

(***************************************************************************)
(* What the backend and the browser can answer.                            *)
(***************************************************************************)
Token(email, preview, auth, remaining, expires, used) ==
    [isNull |-> FALSE, user_email |-> email, token_preview |-> preview,
     auth_type |-> auth, remaining_usage |-> remaining, expires_at |-> expires,
     last_used |-> used]

\* a null element of the tokens array
NullToken == [isNull |-> TRUE, user_email |-> Null, token_preview |-> Null,
              auth_type |-> Null, remaining_usage |-> Null, expires_at |-> Null,
              last_used |-> Null]

\* The decoded body.  isNull: the body is the JSON value null.  tokens is
\* "missing" (absent or falsy), "array", or "notarray" (a truthy value
\* whose length is not 0 and that has no map method).
Body(isNull, tokens, items, total, active) ==
    [isNull |-> isNull, tokens |-> tokens, items |-> items,
     total_tokens |-> total, active_tokens |-> active]

NoBody == Body(TRUE, "missing", <<>>, 0, 0)

NetworkError(message) ==
    [kind |-> "network", status |-> 0, statusText |-> <<>>, message |-> message,
     body |-> NoBody]
HttpError(status, statusText) ==
    [kind |-> "http", status |-> status, statusText |-> statusText,
     message |-> <<>>, body |-> NoBody]
BadJson(message) ==
    [kind |-> "badjson", status |-> 200, statusText |-> <<"OK">>,
     message |-> message, body |-> NoBody]
Ok(body) ==
    [kind |-> "ok", status |-> 200, statusText |-> <<"OK">>, message |-> <<>>,
     body |-> body]

\* the response whose headers arrived with response.ok, body not yet read
OkHeaders == Ok(NoBody)

(***************************************************************************)
(* refreshTokens, after its awaits.                                        *)
(***************************************************************************)
\* mutant of HttpErrorMessage: the status code is left out
HttpErrorMessage_noStatus(resp) == <<"HTTP error: ">> \o resp.statusText

\* `HTTP ${response.status}: ${response.statusText}`
HttpErrorMessage(resp) ==
    <<"HTTP ">> \o NumStr(resp.status) \o <<": ">> \o resp.statusText

\* `Failed to load: ${error.message}`
FailedToLoad(message) == <<"Failed to load: ">> \o message

\* the TypeError messages of the engine
NullBodyMessage == <<"Cannot read properties of null (reading 'tokens')">>
NotArrayMessage == <<"data.tokens.map is not a function">>
NullTokenMessage == <<"Cannot read properties of null (reading 'expires_at')">>

\* mutant of updateTokenTable: no empty-list check, the joined rows of an
\* empty or missing list are assigned
updateTokenTable_noEmptyCheck(data, reads) ==
    IF data.isNull THEN [threw |-> TRUE, message |-> NullBodyMessage, html |-> showLoading]
    ELSE IF data.tokens = "notarray"
    THEN [threw |-> TRUE, message |-> NotArrayMessage, html |-> showLoading]
    ELSE IF \E i \in 1..Len(data.items) : data.items[i].isNull
    THEN [threw |-> TRUE, message |-> NullTokenMessage, html |-> showLoading]
    ELSE [threw |-> FALSE, message |-> <<>>,
          html |-> Html("rows", <<>>,
                        [i \in 1..Len(data.items) |->
                            createTokenRow(data.items[i], i - 1,
                                           reads[2 * i - 1], reads[2 * i])])]

\* updateTokenTable(data): the innerHTML it leaves, or the TypeError it
\* throws before it assigns any.  reads[2i-1] and reads[2i] are the clock
\* values row i's getStatusClass and getStatusText read.
updateTokenTable(data, reads) ==
    IF data.isNull THEN [threw |-> TRUE, message |-> NullBodyMessage, html |-> showLoading]
    ELSE IF data.tokens = "missing" \/ (data.tokens = "array" /\ Len(data.items) = 0)
    THEN [threw |-> FALSE, message |-> <<>>, html |-> showEmpty]
    ELSE IF data.tokens = "notarray"
    THEN [threw |-> TRUE, message |-> NotArrayMessage, html |-> showLoading]
    ELSE IF \E i \in 1..Len(data.items) : data.items[i].isNull
    THEN [threw |-> TRUE, message |-> NullTokenMessage, html |-> showLoading]
    ELSE [threw |-> FALSE, message |-> <<>>,
          html |-> Html("rows", <<>>,
                        [i \in 1..Len(data.items) |->
                            createTokenRow(data.items[i], i - 1,
                                           reads[2 * i - 1], reads[2 * i])])]

\* Math.round(currentValue + increment * step), increment = (target - current) / steps.
\* 2 * (target - current) * step is even and steps is odd, so the value is
\* never half way and rounding is floor(x + 1/2).
AnimValue(from, to, step) ==
    (2 * (steps * from + (to - from) * step) + steps) \div (2 * steps)

\* animateNumber(elementId, targetValue) on the pair [counters, timers]
animateNumber(st, elementId, targetValue) ==
    LET currentValue == st.counters[elementId]
    IN  IF currentValue = targetValue THEN st
        ELSE [st EXCEPT !.timers =
                 Append(@, [el |-> elementId, from |-> currentValue,
                            to |-> targetValue, step |-> 0])]

\* updateStatusBar(data); a missing count is `|| 0`
updateStatusBar(st, data) ==
    animateNumber(animateNumber(st, "totalTokens", data.total_tokens),
                  "activeTokens", data.active_tokens)

\* The clock values one run of the handler can read: k reads, in order,
\* the clock advancing by at most adv while the handler runs.
ClockReads(k, adv) ==
    LET hi == IF now + adv > MaxClock THEN MaxClock ELSE now + adv
    IN  {rs \in [1..k -> now..hi] : \A i \in 1..(k - 1) : rs[i] <= rs[i + 1]}

ReadsOf(resp) == 2 * Len(resp.body.items) + 1

(***************************************************************************)
(* The state after `new TokenDashboard()`: bindEvents, then refreshTokens  *)
(* up to its first await.                                                  *)
(***************************************************************************)
Init ==
    /\ tbodyPresent \in BOOLEAN
    /\ autoRefreshInterval = NoHandle
    /\ isAutoRefreshEnabled = FALSE
    /\ ariaChecked = FALSE
    /\ liveIntervals = {}
    /\ nextHandle = 1
    /\ counters = [totalTokens |-> 0, activeTokens |-> 0]
    /\ lastUpdate = -1
    /\ now = 0
    /\ awaitingJson = {}
    /\ animTimers = <<>>
    /\ resolved = <<>>
    /\ lastReads = <<>>
    /\ IF tbodyPresent
       THEN tbody = showLoading /\ awaitingFetch = {1} /\ nextReq = 2 /\ rejected = FALSE
       ELSE tbody = AbsentHtml /\ awaitingFetch = {} /\ nextReq = 1 /\ rejected = TRUE

(***************************************************************************)
(* Operations.                                                             *)
(***************************************************************************)
\* mutant of refreshTokens: a new refresh aborts the fetches still in flight
refreshTokens_abort(maxReq) ==
    IF tbodyPresent
    THEN /\ nextReq <= maxReq
         /\ tbody' = showLoading
         /\ awaitingFetch' = {nextReq}
         /\ nextReq' = nextReq + 1
         /\ UNCHANGED rejected
    ELSE /\ rejected' = TRUE
         /\ UNCHANGED <<tbody, awaitingFetch, nextReq>>

\* refreshTokens up to `await fetch`: showLoading(tbody) is outside the
\* try block, so a missing table body rejects the promise.
refreshTokens(maxReq) ==
    IF tbodyPresent
    THEN /\ nextReq <= maxReq
         /\ tbody' = showLoading
         /\ awaitingFetch' = awaitingFetch \cup {nextReq}
         /\ nextReq' = nextReq + 1
         /\ UNCHANGED rejected
    ELSE /\ rejected' = TRUE
         /\ UNCHANGED <<tbody, awaitingFetch, nextReq>>

\* click on .refresh-btn (the button's scale effect is not modelled)
handleRefreshClick(maxReq) ==
    /\ refreshTokens(maxReq)
    /\ UNCHANGED <<tbodyPresent, autoRefreshInterval, isAutoRefreshEnabled,
                   ariaChecked, liveIntervals, nextHandle, counters, lastUpdate,
                   now, awaitingJson, animTimers, resolved, lastReads>>

startAutoRefresh ==
    /\ nextHandle <= MaxHandles
    /\ liveIntervals' = liveIntervals \cup {nextHandle}
    /\ autoRefreshInterval' = nextHandle
    /\ nextHandle' = nextHandle + 1
    /\ isAutoRefreshEnabled' = TRUE

\* mutant of stopAutoRefresh: the handle is dropped without clearInterval
stopAutoRefresh_noClear ==
    /\ autoRefreshInterval' = NoHandle
    /\ isAutoRefreshEnabled' = FALSE
    /\ UNCHANGED <<liveIntervals, nextHandle>>

stopAutoRefresh ==
    /\ IF autoRefreshInterval # NoHandle
       THEN /\ liveIntervals' = liveIntervals \ {autoRefreshInterval}
            /\ autoRefreshInterval' = NoHandle
       ELSE UNCHANGED <<liveIntervals, autoRefreshInterval>>
    /\ isAutoRefreshEnabled' = FALSE
    /\ UNCHANGED nextHandle

\* click, Enter or Space on .switch
toggleAutoRefresh ==
    /\ IF isAutoRefreshEnabled
       THEN stopAutoRefresh /\ ariaChecked' = FALSE
       ELSE startAutoRefresh /\ ariaChecked' = TRUE
    /\ UNCHANGED <<tbodyPresent, tbody, counters, lastUpdate, now, awaitingFetch,
                   awaitingJson, nextReq, animTimers, resolved, lastReads, rejected>>

\* a tick of the refresh interval h
AutoRefreshTick(h, maxReq) ==
    /\ h \in liveIntervals
    /\ refreshTokens(maxReq)
    /\ UNCHANGED <<tbodyPresent, autoRefreshInterval, isAutoRefreshEnabled,
                   ariaChecked, liveIntervals, nextHandle, counters, lastUpdate,
                   now, awaitingJson, animTimers, resolved, lastReads>>

\* `await fetch(...)` settles for request r: a rejection or a non-2xx
\* response goes to the catch block, an ok response to `await response.json()`.
FetchSettle(r, resp) ==
    /\ r \in awaitingFetch
    /\ awaitingFetch' = awaitingFetch \ {r}
    /\ IF resp.kind = "ok"
       THEN /\ awaitingJson' = awaitingJson \cup {r}
            /\ UNCHANGED <<tbody, resolved>>
       ELSE /\ tbody' = showError(FailedToLoad(IF resp.kind = "http"
                                                THEN HttpErrorMessage(resp)
                                                ELSE resp.message))
            /\ resolved' = Append(resolved, [req |-> r, resp |-> resp])
            /\ UNCHANGED awaitingJson
    /\ UNCHANGED <<tbodyPresent, autoRefreshInterval, isAutoRefreshEnabled,
                   ariaChecked, liveIntervals, nextHandle, counters, lastUpdate,
                   now, nextReq, animTimers, lastReads, rejected>>

\* `await response.json()` settles for request r: updateTokenTable,
\* updateStatusBar, updateLastUpdateTime, or the catch block.
JsonSettle(r, resp, reads) ==
    /\ r \in awaitingJson
    /\ awaitingJson' = awaitingJson \ {r}
    /\ resolved' = Append(resolved, [req |-> r, resp |-> resp])
    /\ IF resp.kind = "badjson"
       THEN /\ tbody' = showError(FailedToLoad(resp.message))
            /\ UNCHANGED <<counters, animTimers, lastUpdate, lastReads, now>>
       ELSE LET table == updateTokenTable(resp.body, reads)
                bar == updateStatusBar([counters |-> counters, timers |-> animTimers],
                                       resp.body)
            IN  IF table.threw
                THEN /\ tbody' = showError(FailedToLoad(table.message))
                     /\ UNCHANGED <<counters, animTimers, lastUpdate, lastReads, now>>
                ELSE /\ tbody' = table.html
                     /\ animTimers' = bar.timers
                     /\ lastUpdate' = reads[Len(reads)]
                     /\ lastReads' = reads
                     /\ now' = reads[Len(reads)]
                     /\ UNCHANGED counters
    /\ UNCHANGED <<tbodyPresent, autoRefreshInterval, isAutoRefreshEnabled,
                   ariaChecked, liveIntervals, nextHandle, awaitingFetch, nextReq,
                   rejected>>

\* A tick of the animation interval that is due first.  All of them have
\* the period duration / steps, so they fire in the order of the queue and
\* one set now fires after every interval that is already live.
AnimTick ==
    /\ animTimers # <<>>
    /\ LET timer == Head(animTimers)
           step == timer.step + 1
       IN  IF step >= steps
           THEN /\ counters' = [counters EXCEPT ![timer.el] = timer.to]
                /\ animTimers' = Tail(animTimers)
           ELSE /\ counters' = [counters EXCEPT
                                   ![timer.el] = AnimValue(timer.from, timer.to, step)]
                /\ animTimers' = Append(Tail(animTimers), [timer EXCEPT !.step = step])
    /\ UNCHANGED <<tbodyPresent, autoRefreshInterval, isAutoRefreshEnabled,
                   ariaChecked, liveIntervals, nextHandle, tbody, lastUpdate, now,
                   awaitingFetch, awaitingJson, nextReq, resolved, lastReads, rejected>>

\* time passes
ClockTick ==
    /\ now < MaxClock
    /\ now' = now + 1
    /\ UNCHANGED <<tbodyPresent, autoRefreshInterval, isAutoRefreshEnabled,
                   ariaChecked, liveIntervals, nextHandle, tbody, counters,
                   lastUpdate, awaitingFetch, awaitingJson, nextReq, animTimers,
                   resolved, lastReads, rejected>>

(***************************************************************************)
(* Spec: the controller under clicks, toggles, interval ticks and every    *)
(* kind of answer.  The backend reports zero counts and no expiry dates    *)
(* here; SpecAnim and SpecRow vary those.                                  *)
(***************************************************************************)
TokA == Token(Str(<<"a@b.com">>), Str(<<"tok_a...">>), Str(<<"social">>), Num(3), Null, Null)
TokB == Token(Str(<<"b@c.org">>), Null, Null, Num(0), Null, Null)

MainFetchOutcomes ==
    {OkHeaders,
     NetworkError(<<"Failed to fetch">>),
     HttpError(404, <<"Not Found">>),
     HttpError(500, <<"Internal ", "<", "b", ">", "Server", "<", "/b", ">", " Error">>)}

MainBodies ==
    {BadJson(<<"Unexpected token ", "<", " in JSON at position 0">>),
     Ok(Body(TRUE, "missing", <<>>, 0, 0)),
     Ok(Body(FALSE, "missing", <<>>, 0, 0)),
     Ok(Body(FALSE, "notarray", <<>>, 0, 0)),
     Ok(Body(FALSE, "array", <<>>, 0, 0)),
     Ok(Body(FALSE, "array", <<TokA>>, 0, 0)),
     Ok(Body(FALSE, "array", <<TokB, TokA>>, 0, 0)),
     Ok(Body(FALSE, "array", <<NullToken>>, 0, 0))}

Next ==
    \/ handleRefreshClick(MaxRequests)
    \/ toggleAutoRefresh
    \/ \E h \in liveIntervals : AutoRefreshTick(h, MaxRequests)
    \/ \E r \in awaitingFetch, resp \in MainFetchOutcomes : FetchSettle(r, resp)
    \/ \E r \in awaitingJson, resp \in MainBodies :
          \E reads \in ClockReads(ReadsOf(resp), 0) : JsonSettle(r, resp, reads)

Spec == Init /\ [][Next]_vars

(***************************************************************************)
(* SpecAnim: successful refreshes whose counts vary, and the animation     *)
(* intervals they start.                                                   *)
(***************************************************************************)
AnimBodies ==
    {Ok(Body(FALSE, "array", <<>>, c[1], c[2])) :
        c \in {c \in (0..MaxCount) \X (0..MaxCount) : c[2] <= c[1]}}

NextAnim ==
    \/ handleRefreshClick(MaxAnimRequests)
    \/ \E r \in awaitingFetch : FetchSettle(r, OkHeaders)
    \/ \E r \in awaitingJson, resp \in AnimBodies :
          \E reads \in ClockReads(ReadsOf(resp), 0) : JsonSettle(r, resp, reads)
    \/ AnimTick

SpecAnim == Init /\ [][NextAnim]_vars

(***************************************************************************)
(* SpecRow: the rendering of one record, its fields and the clock drawn    *)
(* from bounded sets; the clock may advance while the row is built.        *)
(***************************************************************************)
RowRemaining == {Null} \cup {Num(k) : k \in 0..MaxRemaining}
RowExpires == {Null, Str(<<"not a date">>)} \cup {Ts(k) : k \in 0..MaxClock}
RowStrings ==
    {Null, Str(<<>>), Str(<<"a@b.com">>), Str(<<"<", "script", ">">>),
     Str(<<"&", "lt;">>), Num(7)}

RowTokens ==
    {Token(Str(<<"a@b.com">>), Str(<<"tok_a...">>), Str(<<"social">>), rem, exp, Null) :
        rem \in RowRemaining, exp \in RowExpires}
    \cup {Token(x, Null, Null, Num(3), Null, Null) : x \in RowStrings}
    \cup {Token(Null, x, Null, Num(3), Null, Null) : x \in RowStrings}
    \cup {Token(Null, Null, x, Num(3), Null, Null) : x \in RowStrings}
    \cup {Token(Null, Null, Null, x, Null, Null) : x \in RowStrings}
    \cup {Token(Null, Null, Null, Num(3), x, x) : x \in RowStrings}

RowBodies == {Ok(Body(FALSE, "array", <<token>>, 0, 0)) : token \in RowTokens}

NextRow ==
    \/ \E r \in awaitingFetch : FetchSettle(r, OkHeaders)
    \/ \E r \in awaitingJson, resp \in RowBodies :
          \E reads \in ClockReads(ReadsOf(resp), MaxClock) : JsonSettle(r, resp, reads)
    \/ ClockTick

SpecRow == Init /\ [][NextRow]_vars

(***************************************************************************)
(* Vocabulary of the properties.                                           *)
(***************************************************************************)
\* the text a browser shows for escaped markup
UnescapeAtom(a) ==
    CASE a = "&amp;" -> "&"
      [] a = "&lt;" -> "<"
      [] a = "&gt;" -> ">"
      [] OTHER -> a
Unescape(atoms) == [i \in 1..Len(atoms) |-> UnescapeAtom(atoms[i])]

\* interpolated text that the HTML parser reads as text only
NoMarkup(atoms) == \A i \in 1..Len(atoms) : atoms[i] \notin {"<", ">", "&"}

Contains(str, sub) ==
    \E i \in 0..(Len(str) - Len(sub)) : SubSeq(str, i + 1, i + Len(sub)) = sub

Idle == awaitingFetch = {} /\ awaitingJson = {}
Last == resolved[Len(resolved)]
Issued == 1..(nextReq - 1)
Completed == {resolved[i].req : i \in 1..Len(resolved)}

\* a body that updateTokenTable can render
WellFormed(body) ==
    /\ ~body.isNull
    /\ body.tokens # "notarray"
    /\ \A i \in 1..Len(body.items) : ~body.items[i].isNull
HasRows(body) == WellFormed(body) /\ body.tokens = "array" /\ body.items # <<>>
IsSuccess(resp) == resp.kind = "ok" /\ WellFormed(resp.body)

\* the rows of html are the records of resp, in order
RowsOf(html, resp) ==
    /\ html.kind = "rows"
    /\ HasRows(resp.body)
    /\ Len(html.rows) = Len(resp.body.items)
    /\ \A i \in 1..Len(html.rows) :
          LET row == html.rows[i]
              token == resp.body.items[i]
          IN  /\ row.index = i - 1
              /\ Unescape(row.user_email) = ToStr(OrElse(token.user_email, Str(<<"unknown">>)))
              /\ Unescape(row.token_preview) = ToStr(OrElse(token.token_preview, Str(<<"N/A">>)))
              /\ row.remaining_usage = ToStr(Nullish(token.remaining_usage, Num(0)))

\* html is the outcome of resp: its rows, the empty-state placeholder, or
\* an error message
Shows(html, resp) ==
    IF ~IsSuccess(resp) THEN html.kind = "error" /\ html.rows = <<>>
    ELSE IF HasRows(resp.body) THEN RowsOf(html, resp)
    ELSE html = showEmpty

\* a refresh completes in this step
Completes == Len(resolved') = Len(resolved) + 1
LastNext == resolved'[Len(resolved')]

(***************************************************************************)
(* C1: after any sequence of toggleAutoRefresh() calls exactly one refresh *)
(* interval is live while auto-refresh is enabled, and it is the one whose *)
(* handle the controller holds; none is live while it is disabled, so no   *)
(* tick can start a fetch after toggling on and off.                       *)
(***************************************************************************)
C1_OneTimerIffEnabled ==
    /\ Cardinality(liveIntervals) = (IF isAutoRefreshEnabled THEN 1 ELSE 0)
    /\ isAutoRefreshEnabled => liveIntervals = {autoRefreshInterval}
    /\ ~isAutoRefreshEnabled =>
          \A h \in 1..MaxHandles : ~ENABLED AutoRefreshTick(h, MaxRequests)

\* auto-refresh was toggled on and then off
C1_Witness == ~isAutoRefreshEnabled /\ nextHandle > 1 /\ autoRefreshInterval = NoHandle

(***************************************************************************)
(* C2: whenever no refresh is pending and the table shows token rows, they *)
(* are the rows of the response to the most recently issued request that   *)
(* succeeded.                                                              *)
(***************************************************************************)
C2_RowsOfLatestIssuedSuccess ==
    (Idle /\ tbody.kind = "rows") =>
        LET ok == {i \in 1..Len(resolved) : IsSuccess(resolved[i].resp)}
        IN  /\ ok # {}
            /\ LET latest == CHOOSE i \in ok :
                                \A j \in ok : resolved[j].req <= resolved[i].req
               IN  RowsOf(tbody, resolved[latest].resp)

(***************************************************************************)
(* C3: no call of refreshTokens() ever ends in a rejected promise.         *)
(***************************************************************************)
C3_RefreshNeverRejects == ~rejected

(***************************************************************************)
(* C4: when a refresh completes on a non-2xx response, the table body then *)
(* shows an error message that contains the status code and the reason     *)
(* phrase, and no token rows.                                              *)
(***************************************************************************)
C4_HttpErrorShown ==
    [][(Completes /\ LastNext.resp.kind = "http") =>
          /\ tbody'.kind = "error"
          /\ tbody'.rows = <<>>
          /\ NoMarkup(tbody'.message)
          /\ Contains(Unescape(tbody'.message), NumStr(LastNext.resp.status))
          /\ Contains(Unescape(tbody'.message), LastNext.resp.statusText)]_vars

\* a non-2xx response has replaced rows that an earlier refresh rendered
C4_Witness ==
    /\ Len(resolved) >= 2
    /\ Last.resp.kind = "http"
    /\ HasRows(resolved[Len(resolved) - 1].resp.body)
    /\ tbody.kind = "error"

\* a TokenRecord of the data model: remaining_usage is an integer >= 0,
\* expires_at is null or a string
IsTokenRecord(token) ==
    /\ token.remaining_usage.t = "num"
    /\ token.remaining_usage.n >= 0
    /\ token.expires_at.t \in {"null", "str", "ts"}

\* the string denotes an instant before the clock
InThePast(v, clock) == v.t = "ts" /\ v.n < clock

ReferenceStatus(token, clock) ==
    IF token.expires_at # Null /\ InThePast(token.expires_at, clock) THEN "Expired"
    ELSE IF token.remaining_usage.n = 0 THEN "Exhausted"
    ELSE IF token.remaining_usage.n \in 1..5 THEN "Low"
    ELSE "Active"

(***************************************************************************)
(* C5: the status label of every rendered record is "Expired" if           *)
(* expires_at is present and in the past, whatever the remaining usage;    *)
(* otherwise "Exhausted" for a remaining usage of 0, "Low" for 1 to 5 and  *)
(* "Active" above 5.                                                       *)
(***************************************************************************)
C5_StatusLabel ==
    (tbody.kind = "rows" /\ resolved # <<>>) =>
        \A i \in 1..Len(tbody.rows) :
            LET token == Last.resp.body.items[i]
            IN  IsTokenRecord(token) =>
                    tbody.rows[i].statusText = ReferenceStatus(token, lastReads[2 * i])

\* an expired record with usage left is labelled Expired
C5_Witness ==
    /\ tbody.kind = "rows"
    /\ resolved # <<>>
    /\ \E i \in 1..Len(tbody.rows) :
          /\ Last.resp.body.items[i].remaining_usage = Num(6)
          /\ Last.resp.body.items[i].expires_at = Ts(1)
          /\ lastReads[2 * i] = 2
          /\ tbody.rows[i].statusText = "Expired"

(***************************************************************************)
(* C6: when a refresh completes on a successful response with an empty     *)
(* token list, the table body then shows the empty-state placeholder: not  *)
(* zero rows, not the loading placeholder, not an earlier response's rows. *)
(***************************************************************************)
C6_EmptyListShown ==
    [][(/\ Completes
        /\ LastNext.resp.kind = "ok"
        /\ ~LastNext.resp.body.isNull
        /\ LastNext.resp.body.tokens = "array"
        /\ LastNext.resp.body.items = <<>>) => tbody' = showEmpty]_vars

\* an empty list has replaced rows that an earlier refresh rendered
C6_Witness ==
    /\ Len(resolved) >= 2
    /\ Last.resp = Ok(Body(FALSE, "array", <<>>, 0, 0))
    /\ HasRows(resolved[Len(resolved) - 1].resp.body)
    /\ tbody = showEmpty

(***************************************************************************)
(* C7: every backend-supplied string reaches the table markup escaped: no  *)
(* value interpolated into a row or an error message holds markup.         *)
(***************************************************************************)
C7_AllStringsEscaped ==
    /\ NoMarkup(tbody.message)
    /\ \A i \in 1..Len(tbody.rows) :
          LET row == tbody.rows[i]
          IN  /\ NoMarkup(row.user_email)
              /\ NoMarkup(row.token_preview)
              /\ NoMarkup(row.auth_type)
              /\ NoMarkup(row.remaining_usage)
              /\ NoMarkup(row.expires_at)
              /\ NoMarkup(row.last_used)

(***************************************************************************)
(* C8: a refresh started while another is pending cancels nothing: every   *)
(* request issued is pending or has completed, the table shows the loading *)
(* placeholder or the outcome of the refresh that completed last, whatever *)
(* the order of issue, and once none is pending it shows that outcome.     *)
(***************************************************************************)
C8_LastResolvedWins ==
    /\ Completed \cup awaitingFetch \cup awaitingJson = Issued
    /\ Len(resolved) = Cardinality(Completed)
    /\ tbody.kind \notin {"loading", "absent"} =>
          resolved # <<>> /\ Shows(tbody, Last.resp)
    /\ (Idle /\ resolved # <<>>) => tbody.kind # "loading"

\* two refreshes overlapped and the one issued first completed last
C8_Witness ==
    /\ Idle
    /\ Len(resolved) >= 2
    /\ Last.req < resolved[Len(resolved) - 1].req
    /\ IsSuccess(Last.resp)
    /\ HasRows(Last.resp.body)
    /\ tbody.kind = "rows"

(***************************************************************************)
(* C9: once every counter animation has stopped, each counter shows the    *)
(* total_tokens / active_tokens of the successful response rendered last.  *)
(***************************************************************************)
C9_CountersShowLatest ==
    LET ok == {i \in 1..Len(resolved) : IsSuccess(resolved[i].resp)}
    IN  (animTimers = <<>> /\ ok # {}) =>
            LET latest == CHOOSE i \in ok : \A j \in ok : j <= i
                body == resolved[latest].resp.body
            IN  /\ counters.totalTokens = body.total_tokens
                /\ counters.activeTokens = body.active_tokens

\* the visual class that belongs to a status label
ClassOfLabel(label) ==
    CASE label = "Expired" -> "status-expired"
      [] label = "Exhausted" -> "status-exhausted"
      [] label = "Low" -> "status-low"
      [] label = "Active" -> "status-active"

(***************************************************************************)
(* C10: in every rendered row the visual class and the status label denote *)
(* the same status.                                                        *)
(***************************************************************************)
C10_ClassMatchesLabel ==
    \A i \in 1..Len(tbody.rows) :
        tbody.rows[i].statusClass = ClassOfLabel(tbody.rows[i].statusText)

====
